---------------------------- MODULE Spec2Model ----------------------------
(***************************************************************************)
(* cipher_four: a 16-bit substitution-permutation network (basic_spn.py)   *)
(* and the correctness driver of testing_cipher_four.py.                   *)
(*                                                                         *)
(* Three specifications share the definitions of the engine's methods:     *)
(*   Spec      one engine instance: constructor, round_keys setter,        *)
(*             encrypt, decrypt, with the cached round keys;               *)
(*   TestSpec  correctness(enc, dec, P, K): encrypt on one engine, decrypt *)
(*             on another, compare;                                        *)
(*   PermSpec  perm_layer applied once and twice to every 16-bit state.    *)
(*                                                                         *)
(* A Python value that is "an integer OR an iterable binary                *)
(* representation" is a tagged record (IntV / VecV); a call that raises    *)
(* is an outcome with ok = FALSE.                                          *)
(***************************************************************************)
EXTENDS Integers, Sequences, FiniteSets, TLC

\* ------------------------------- bounds --------------------------------- \*
\* largest round count of the engines the correctness driver builds
MaxRounds == 6
\* largest round count of the engine of the lifecycle specification
MaxEngineRounds == 2
\* how many keyless encryptions the lifecycle specification remembers
MaxHist == 1

\* --------------------------- program constants -------------------------- \*
\* 0xffff + 1, the modulus of the "sanity check" of every layer
Modulus == 65536
\* the round counts of the engines the driver tests: cipher_four() and
\* cipher_four(rounds=6)
TestedRounds == {5, 6}

\* ------------------------------ Python values --------------------------- \*
IntV(n) == [tag |-> "int", val |-> n, bits |-> << >>]
VecV(b) == [tag |-> "vec", val |-> 0, bits |-> b]

\* round_keys=None, or a list of keys
None == [none |-> TRUE, keys |-> << >>]
Keys(s) == [none |-> FALSE, keys |-> s]

Min(a, b) == IF a < b THEN a ELSE b

RECURSIVE Reverse(_)
Reverse(s) == IF s = << >> THEN << >> ELSE Reverse(Tail(s)) \o <<Head(s)>>

\* seq[:stop]
slice_to(s, stop) ==
    LET st == IF stop < 0 THEN stop + Len(s) ELSE stop
    IN  IF st <= 0 THEN << >> ELSE SubSeq(s, 1, Min(st, Len(s)))

\* seq[start::-1] : a negative start counts from the end of the list
slice_rev_from(s, start) ==
    LET st == IF start < 0 THEN start + Len(s) ELSE start
    IN  IF st < 0 THEN << >>
        ELSE Reverse(SubSeq(s, 1, Min(st, Len(s) - 1) + 1))

\* ---------------------------------- Utils ------------------------------- \*
\* ZZ(n).digits(2): base-2 digits, least significant first, [] for 0
RECURSIVE digits(_)
digits(n) == IF n = 0 THEN << >> ELSE <<n % 2>> \o digits(n \div 2)

\* ZZ(list, 2): digit j of the list sets bit j
RECURSIVE from_digits(_)
from_digits(b) == IF b = << >> THEN 0 ELSE Head(b) + 2 * from_digits(Tail(b))

int_to_vec_msb(state) == VecV(Reverse(digits(state)))
int_to_vec(state) == VecV(digits(state))

iter_to_int(state) ==
    IF state.tag = "int" THEN state.val ELSE from_digits(state.bits)

\* state ^ round_key on non-negative Python integers
RECURSIVE Xor(_, _)
Xor(a, b) ==
    IF a = 0 THEN b
    ELSE IF b = 0 THEN a
    ELSE ((a + b) % 2) + 2 * Xor(a \div 2, b \div 2)

\* ------------------------------ fixed tables ---------------------------- \*
\* SBox(6, 4, 0xc, 5, 0, 7, 2, 0xe, 1, 0xf, 3, 0xd, 8, 0xa, 9, 0xb)
SBoxTable == <<6, 4, 12, 5, 0, 7, 2, 14, 1, 15, 3, 13, 8, 10, 9, 11>>
sbox == [n \in 0..15 |-> SBoxTable[n + 1]]
\* self._sbox.inverse()
sbox_inverse == [m \in 0..15 |-> CHOOSE n \in 0..15 : sbox[n] = m]

\* a rotation of the bit positions instead of the transposition
pbox_rotated == [idx \in 0..15 |-> (idx + 1) % 16]
\* [i+4*j for i in range(4) for j in range(4)]: entry 4*i + j is i + 4*j
pbox == [idx \in 0..15 |-> (idx \div 4) + 4 * (idx % 4)]

\* --------------------------- outcomes of a call ------------------------- \*
\* the running state of a transform, the states it went through, the round
\* keys mixed in so far, and whether an exception has ended it
Start(state) ==
    [ok |-> TRUE, val |-> state, trace |-> <<state>>, mixed |-> << >>]
Then(o, state) ==
    [ok |-> TRUE, val |-> state, trace |-> Append(o.trace, state),
     mixed |-> o.mixed]
Raise(o) ==
    [ok |-> FALSE, val |-> o.val, trace |-> o.trace, mixed |-> o.mixed]

\* "if state and not state % (0xffff + 1): raise ValueError"
sanity_check_fails(state) == state # 0 /\ state % Modulus = 0

\* ---------------------------- Substitution Layer ------------------------ \*
\* res |= sbox(nib) << i for i in range(0, 16, 4), nib = (state >> i) & 0xf;
\* the four shifted nibbles do not overlap, so the | is a sum
sbox_value(state, inverse) ==
    LET box == IF inverse THEN sbox_inverse ELSE sbox
    IN    box[state % 16]
        + box[(state \div 16) % 16] * 16
        + box[(state \div 256) % 16] * 256
        + box[(state \div 4096) % 16] * 4096

\* the substituted nibble put back one bit too high: sbox(nib) << (i + 1)
sbox_layer_shifted(o, inverse) ==
    IF ~o.ok THEN o
    ELSE IF sanity_check_fails(o.val) THEN Raise(o)
    ELSE Then(o, 2 * sbox_value(o.val, inverse))

sbox_layer(o, inverse) ==
    IF ~o.ok THEN o
    ELSE IF sanity_check_fails(o.val) THEN Raise(o)
    ELSE Then(o, sbox_value(o.val, inverse))

\* ----------------------------- Permutation Layer ------------------------ \*
\* the loop over enumerate(self._pbox) from bit_index on, `rest` being
\* state >> bit_index: a set bit of the state sets bit perm_index of p_state
\* (no two entries of the table are equal, so the | is a sum)
RECURSIVE perm_bits(_, _)
perm_bits(rest, bit_index) ==
    IF bit_index > 15 THEN 0
    ELSE (IF rest % 2 = 1 THEN 2 ^ pbox[bit_index] ELSE 0)
         + perm_bits(rest \div 2, bit_index + 1)

perm_value(state) == perm_bits(state, 0)

perm_layer(o) ==
    IF ~o.ok THEN o
    ELSE IF sanity_check_fails(o.val) THEN Raise(o)
    ELSE Then(o, perm_value(o.val))

\* ------------------------------- Add Round Key -------------------------- \*
add_round_key(o, round_key) ==
    IF ~o.ok THEN o
    ELSE IF sanity_check_fails(o.val) THEN Raise(o)
    ELSE [Then(o, Xor(o.val, iter_to_int(round_key)))
             EXCEPT !.mixed = Append(o.mixed, round_key)]

\* round_keys[index] as the argument of add_round_key: IndexError when the
\* list is too short
add_round_key_at(o, round_keys, index) ==
    IF ~o.ok THEN o
    ELSE IF index >= Len(round_keys) THEN Raise(o)
    ELSE add_round_key(o, round_keys[index + 1])

\* ----------------------------------- round ------------------------------ \*
round_without_perm(o, round_key, inverse) ==
    IF inverse
    THEN add_round_key(sbox_layer(o, inverse), round_key)
    ELSE sbox_layer(add_round_key(o, round_key), inverse)

round(o, round_key, inverse) ==
    IF inverse
    THEN add_round_key(sbox_layer(perm_layer(o), inverse), round_key)
    ELSE perm_layer(sbox_layer(add_round_key(o, round_key), inverse))

\* for key in keys: state = self.round(state, key, inverse)
RECURSIVE rounds_loop(_, _, _)
rounds_loop(o, keys, inverse) ==
    IF keys = << >> THEN o
    ELSE rounds_loop(round(o, Head(keys), inverse), Tail(keys), inverse)

\* -------------------------------- the engine --------------------------- \*
\* __init__: no argument is validated
cipher_four(rounds, vector_output, round_keys) ==
    [rounds |-> rounds, vec_out |-> vector_output, round_keys |-> round_keys]

\* @round_keys.setter
round_keys_setter(self, keys) ==
    IF Len(keys) < self.rounds
    THEN [ok |-> FALSE, self |-> self]
    ELSE [ok |-> TRUE, self |-> [self EXCEPT !.round_keys = Keys(keys)]]

\* the values randrange(0xffff) is let to draw in the model
GenVals == {0, 65534}
\* the lists generate_keys() can return
generate_keys(self) == [1..(self.rounds + 1) -> {IntV(g) : g \in GenVals}]

\* what a call hands back when it raised
Raised == [tag |-> "raised", val |-> 0, bits |-> << >>]

\* "if self._vec_out: return int_to_vec(state)" / "return state"
output(self, o) ==
    IF ~o.ok THEN Raised
    ELSE IF self.vec_out THEN int_to_vec(o.val) ELSE IntV(o.val)

\* "if not round_keys": None and the empty list are both falsy
falsy(round_keys) == round_keys.none \/ round_keys.keys = << >>

encrypt(self, plaintext, round_keys, generated) ==
    LET state == iter_to_int(plaintext)
        set   == round_keys_setter(self, generated)
        self1 == IF falsy(round_keys) THEN set.self ELSE self
        keys  == IF falsy(round_keys) THEN self1.round_keys.keys
                 ELSE round_keys.keys
        o0 == IF falsy(round_keys) /\ ~set.ok
              THEN Raise(Start(state)) ELSE Start(state)
        \* first r - 1 rounds
        o1 == rounds_loop(o0, slice_to(keys, self.rounds - 1), FALSE)
        \* last round
        o2 == add_round_key_at(o1, keys, self.rounds - 1)
        o3 == sbox_layer(o2, FALSE)
        o4 == add_round_key_at(o3, keys, self.rounds)
    IN  [self |-> self1, ok |-> o4.ok, out |-> output(self, o4),
         trace |-> o4.trace, mixed |-> o4.mixed]

decrypt(self, ciphertext, round_keys) ==
    LET state == iter_to_int(ciphertext)
        cheeky == round_keys.none /\ self.round_keys.none
        keys  == IF round_keys.none THEN self.round_keys.keys
                 ELSE round_keys.keys
        o0 == IF sanity_check_fails(state) \/ cheeky
              THEN Raise(Start(state)) ELSE Start(state)
        \* 'first' round
        o1 == add_round_key_at(o0, keys, self.rounds)
        o2 == sbox_layer(o1, TRUE)
        o3 == add_round_key_at(o2, keys, self.rounds - 1)
        o4 == rounds_loop(o3, slice_rev_from(keys, self.rounds - 2), TRUE)
    IN  [self |-> self, ok |-> o4.ok, out |-> output(self, o4),
         trace |-> o4.trace, mixed |-> o4.mixed]

\* =========================== state of the model ========================= \*
VARIABLES
    eng,        \* Spec: the engine instance
    last,       \* Spec: the last call on it, its outcome, the engine before it
    hist,       \* Spec: (plaintext, ciphertext) of the first keyless encrypts
                \*       since the round keys were last set by the caller
    enc, dec,   \* TestSpec: the engines behind enc(...) and dec(...)
    P, K,       \* TestSpec: the arguments of correctness(enc, dec, P, K)
    p_int,      \* TestSpec: the integer P stands for
    pc,         \* TestSpec: where correctness() is
    ct, res,    \* TestSpec: enc(P, K) and dec(enc(P, K), K)
    enc_trace,  \* TestSpec: the states encrypt went through
    enc_mixed,  \* TestSpec: the round keys encrypt mixed in, in order
    dec_trace,  \* TestSpec: the states decrypt went through
    verdict,    \* TestSpec: what correctness() returns
    S, T, n     \* PermSpec: a state, perm_layer applied n times to it

vars == <<eng, last, hist, enc, dec, P, K, p_int, pc, ct, res, enc_trace,
          enc_mixed, dec_trace, verdict, S, T, n>>
engine_vars == <<eng, last, hist>>
test_vars == <<enc, dec, P, K, p_int, pc, ct, res, enc_trace, enc_mixed,
               dec_trace, verdict>>
perm_vars == <<S, T, n>>

\* the parts of the state a specification does not use
EngineIdle ==
    /\ eng = cipher_four(1, FALSE, None)
    /\ last = [op |-> "idle", nkeys |-> -1, ok |-> TRUE,
               prev |-> cipher_four(1, FALSE, None)]
    /\ hist = << >>
TestIdle ==
    /\ enc = cipher_four(1, FALSE, None)
    /\ dec = cipher_four(1, FALSE, None)
    /\ P = IntV(0) /\ K = << >> /\ p_int = 0
    /\ pc = "idle" /\ ct = Raised /\ res = Raised
    /\ enc_trace = << >> /\ enc_mixed = << >> /\ dec_trace = << >>
    /\ verdict = FALSE
PermIdle == S = 0 /\ T = 0 /\ n = 0

\* ======================= Spec: one engine instance ====================== \*
\* the key value of the lists a caller passes (K_5 = [0x1 for _ in range(6)])
EngineKeyVals == {1}
\* the lists a caller passes as round_keys: every length from none to one
\* more than any engine needs
KeyLists ==
    UNION {[1..len -> {IntV(k) : k \in EngineKeyVals}] :
              len \in 0..(MaxEngineRounds + 2)}
\* the round_keys argument: omitted, or a list
KeyArgs == {None} \cup {Keys(s) : s \in KeyLists}
\* blocks a caller passes: P = 0xffff of the driver, and 0x10000
EngineBlocks == {IntV(65535), IntV(Modulus)}

NumKeys(round_keys) == IF round_keys.none THEN -1 ELSE Len(round_keys.keys)

\* cipher_four(rounds, vector_output, round_keys), round_keys left out or
\* "an iterable of length self._rounds + 1" as the constructor asks for
Init ==
    /\ \E rounds \in 1..MaxEngineRounds, vector_output \in BOOLEAN :
        \E round_keys \in {a \in KeyArgs : a.none \/ Len(a.keys) = rounds + 1} :
          /\ eng = cipher_four(rounds, vector_output, round_keys)
          /\ last = [op |-> "init", nkeys |-> NumKeys(round_keys),
                     ok |-> TRUE,
                     prev |-> cipher_four(rounds, vector_output, round_keys)]
    /\ hist = << >>
    /\ TestIdle /\ PermIdle

\* engine.round_keys = keys
SetRoundKeys ==
    \E keys \in KeyLists :
        \E r \in {round_keys_setter(eng, keys)} :
            /\ eng' = r.self
            /\ last' = [op |-> "set", nkeys |-> Len(keys), ok |-> r.ok,
                        prev |-> eng]
            /\ hist' = IF r.ok THEN << >> ELSE hist
            /\ UNCHANGED <<test_vars, perm_vars>>

\* engine.encrypt(plaintext, round_keys)
Encrypt ==
    \E plaintext \in EngineBlocks, round_keys \in KeyArgs :
      \E generated \in (IF falsy(round_keys) THEN generate_keys(eng)
                         ELSE {<< >>}) :
        \E r \in {encrypt(eng, plaintext, round_keys, generated)} :
            /\ eng' = r.self
            /\ last' = [op |-> "encrypt", nkeys |-> NumKeys(round_keys),
                        ok |-> r.ok, prev |-> eng]
            /\ hist' = IF round_keys.none /\ r.ok /\ Len(hist) < MaxHist
                       THEN Append(hist, [p |-> iter_to_int(plaintext),
                                          c |-> r.out])
                       ELSE hist
            /\ UNCHANGED <<test_vars, perm_vars>>

\* engine.decrypt(ciphertext, round_keys)
Decrypt ==
    \E ciphertext \in EngineBlocks \cup {hist[i].c : i \in DOMAIN hist},
       round_keys \in KeyArgs :
        \E r \in {decrypt(eng, ciphertext, round_keys)} :
            /\ eng' = r.self
            /\ last' = [op |-> "decrypt", nkeys |-> NumKeys(round_keys),
                        ok |-> r.ok, prev |-> eng]
            /\ UNCHANGED <<hist, test_vars, perm_vars>>

Next == SetRoundKeys \/ Encrypt \/ Decrypt

Spec == Init /\ [][Next]_vars

\* ============ TestSpec: correctness(enc, dec, P, K) of the driver ======== \*
\* plaintexts: 0, 1, a value whose bits read differently backwards, P = 0xffff
TestBlocks == {0, 1, 291, 65535}
\* key values: 0x1 of the driver and a value whose bits read differently
\* backwards
TestKeyVals == {1, 48879}
\* how P is given: as an integer or as vector(GF(2), ZZ(P).digits(2))
Formats == {"int", "vec"}
\* how the keys are given: all integers (K_5), all vectors (K_vec_5), or
\* a vector at every other place
KeyFormats == {"int", "vec", "mixed"}

Given(value, format) ==
    IF format = "int" THEN IntV(value) ELSE int_to_vec(value)
KeyFormatAt(key_format, i) ==
    IF key_format = "mixed" THEN (IF i % 2 = 1 THEN "vec" ELSE "int")
    ELSE key_format

TestInit ==
    /\ \E rounds \in 1..MaxRounds, enc_vec \in BOOLEAN, dec_vec \in BOOLEAN :
          /\ enc = cipher_four(rounds, enc_vec, None)
          /\ dec = cipher_four(rounds, dec_vec, None)
          /\ \E key_vals \in [1..(rounds + 1) -> TestKeyVals],
                key_format \in KeyFormats :
                K = [i \in 1..(rounds + 1) |->
                        Given(key_vals[i], KeyFormatAt(key_format, i))]
    /\ \E value \in TestBlocks, format \in Formats :
          /\ p_int = value
          /\ P = Given(value, format)
    /\ pc = "start"
    /\ ct = Raised /\ res = Raised
    /\ enc_trace = << >> /\ enc_mixed = << >> /\ dec_trace = << >>
    /\ verdict = FALSE
    /\ EngineIdle /\ PermIdle

\* enc(P, K)
TestEncrypt ==
    /\ pc = "start"
    /\ \E r \in {encrypt(enc, P, Keys(K), << >>)} :
           /\ enc' = r.self
           /\ ct' = r.out
           /\ enc_trace' = r.trace
           /\ enc_mixed' = r.mixed
           /\ pc' = IF r.ok THEN "encrypted" ELSE "raised"
    /\ UNCHANGED <<dec, P, K, p_int, res, dec_trace, verdict>>
    /\ UNCHANGED <<engine_vars, perm_vars>>

\* res = dec(enc(P, K), K)
TestDecrypt ==
    /\ pc = "encrypted"
    /\ \E r \in {decrypt(dec, ct, Keys(K))} :
           /\ dec' = r.self
           /\ res' = r.out
           /\ dec_trace' = r.trace
           /\ pc' = IF r.ok THEN "decrypted" ELSE "raised"
    /\ UNCHANGED <<enc, P, K, p_int, ct, enc_trace, enc_mixed, verdict>>
    /\ UNCHANGED <<engine_vars, perm_vars>>

\* return P == res, both turned into integers
TestCompare ==
    /\ pc = "decrypted"
    /\ verdict' = (iter_to_int(P) = iter_to_int(res))
    /\ pc' = "done"
    /\ UNCHANGED <<enc, dec, P, K, p_int, ct, res, enc_trace, enc_mixed,
                   dec_trace>>
    /\ UNCHANGED <<engine_vars, perm_vars>>

TestNext == TestEncrypt \/ TestDecrypt \/ TestCompare

TestSpec == TestInit /\ [][TestNext]_vars

\* ============ PermSpec: perm_layer on every 16-bit state ================ \*
PermInit ==
    /\ S \in 0..(Modulus - 1)
    /\ T = S
    /\ n = 0
    /\ EngineIdle /\ TestIdle

\* state = self.perm_layer(state), at most twice in a row
Permute ==
    /\ n < 2
    /\ T' = perm_layer(Start(T)).val
    /\ n' = n + 1
    /\ UNCHANGED <<S, engine_vars, test_vars>>

PermNext == Permute

PermSpec == PermInit /\ [][PermNext]_vars

\* ================================ claims ================================ \*
InRange(state) == state \in 0..(Modulus - 1)
Bit(state, i) == (state \div (2 ^ i)) % 2
KeyInts == [i \in DOMAIN K |-> iter_to_int(K[i])]

\* C1: round trip for every round count: when correctness(enc, dec, P, K)
\* has run on engines of R >= 1 rounds with R + 1 16-bit keys, neither call
\* raised and dec(enc(P, K), K) is the integer P stands for.
C1_RoundTrip ==
    /\ pc # "raised"
    /\ pc = "done" => (verdict /\ iter_to_int(res) = p_int)

\* C2: format symmetry at the tested round counts 5 and 6: whichever way
\* the plaintext (integer / bit vector), the keys (integer / bit vector) and
\* the outputs of the two engines (integer / bit vector) are given, no call
\* raises, dec(enc(P, K), K) denotes the integer P stands for, and
\* iter_to_int(int_to_vec(s)) = s for the plaintext, the ciphertext and the
\* result.
C2_FormatSymmetry ==
    enc.rounds \in TestedRounds =>
        /\ pc # "raised"
        /\ iter_to_int(P) = p_int
        /\ iter_to_int(int_to_vec(p_int)) = p_int
        /\ pc \in {"encrypted", "decrypted", "done"} =>
               /\ ct.tag = (IF enc.vec_out THEN "vec" ELSE "int")
               /\ iter_to_int(int_to_vec(iter_to_int(ct))) = iter_to_int(ct)
               /\ iter_to_int(ct) = enc_trace[Len(enc_trace)]
        /\ pc \in {"decrypted", "done"} =>
               /\ res.tag = (IF dec.vec_out THEN "vec" ELSE "int")
               /\ iter_to_int(res) = p_int
        /\ pc = "done" => verdict

\* the plaintext 0 given as the (empty) bit vector, keys given as vectors and
\* as integers, the ciphertext handed over as a vector, the result an integer
C2_Witness ==
    /\ pc = "done" /\ verdict
    /\ enc.rounds = 6
    /\ p_int = 0 /\ P = VecV(<< >>)
    /\ K[1].tag = "vec" /\ K[2].tag = "int"
    /\ enc.vec_out /\ ~dec.vec_out

C9_SixteenBitState ==
    /\ pc # "raised"
    /\ \A i \in DOMAIN enc_trace : InRange(enc_trace[i])
    /\ \A i \in DOMAIN dec_trace : InRange(dec_trace[i])
    /\ pc \in {"encrypted", "decrypted", "done"} =>
           /\ Len(enc_trace) = 3 * enc.rounds + 1
           /\ InRange(iter_to_int(ct))
    /\ pc \in {"decrypted", "done"} =>
           /\ Len(dec_trace) >= 3 * dec.rounds + 1
           /\ InRange(iter_to_int(res))

\* a six-round encrypt and decrypt have gone through all their stages
C9_Witness ==
    /\ pc = "done"
    /\ enc.rounds = 6
    /\ Len(enc_trace) = 3 * enc.rounds + 1
    /\ Len(dec_trace) = 3 * dec.rounds + 1
    /\ p_int = 65535

\* the pipeline of the specification on plain integers: rounds i = 0..R-2
\* are mix with k_i, substitute, permute; the final round is mix with
\* k_(R-1), substitute, mix with k_R
RECURSIVE RefFullRounds(_, _, _, _)
RefFullRounds(state, k, i, R) ==
    IF i > R - 2 THEN state
    ELSE RefFullRounds(perm_value(sbox_value(Xor(state, k[i + 1]), FALSE)),
                       k, i + 1, R)
RefEncrypt(plain, k, R) ==
    Xor(sbox_value(Xor(RefFullRounds(plain, k, 0, R), k[R]), FALSE), k[R + 1])

\* C10: encrypt(P, K) on an engine of R rounds is the reference pipeline
\* (no permutation in the final round), and the R + 1 keys are each mixed in
\* once, in index order.
C10_RoundStructure ==
    pc \in {"encrypted", "decrypted", "done"} =>
        /\ iter_to_int(ct) = RefEncrypt(p_int, KeyInts, enc.rounds)
        /\ enc_mixed = K

\* a five-round encryption with two different key values
C10_Witness ==
    /\ pc = "encrypted"
    /\ enc.rounds = 5
    /\ KeyInts[1] # KeyInts[2]
    /\ Len(enc_mixed) = 6
    /\ p_int = 291

\* C3: key-length enforcement: an encrypt or decrypt called with a list of
\* n keys, 0 <= n < rounds + 1 (the empty list included), ends in an error.
C3_KeyLengthEnforced ==
    (/\ last.op \in {"encrypt", "decrypt"}
     /\ last.nkeys >= 0
     /\ last.nkeys < last.prev.rounds + 1) => ~last.ok

\* C4: state unchanged on failure: after a call that ended in an error the
\* engine (cached round keys, rounds, output flag) is what it was before.
C4_UnchangedOnFailure == ~last.ok => eng = last.prev

\* C5: cached keys are reused: a call that omits the keys on an engine that
\* holds cached round keys leaves the cache as it was, and a keyless decrypt
\* gives back the plaintext of every keyless encrypt made so far.
C5_CachedKeysReused ==
    /\ (/\ last.op \in {"encrypt", "decrypt"}
        /\ last.nkeys = -1
        /\ ~last.prev.round_keys.none) =>
           eng.round_keys = last.prev.round_keys
    /\ \A i \in DOMAIN hist :
           LET r == decrypt(eng, hist[i].c, None)
           IN  r.ok /\ iter_to_int(r.out) = hist[i].p

\* C6: missing keys: with no round keys cached, a decrypt that omits the keys
\* raises; and a call that is handed a list of keys does not fill the cache.
C6_MissingKey ==
    /\ eng.round_keys.none =>
           \A c \in EngineBlocks : ~decrypt(eng, c, None).ok
    /\ (/\ last.op \in {"encrypt", "decrypt"}
        /\ last.nkeys >= 0
        /\ last.prev.round_keys.none) => eng.round_keys.none

\* C8: the cached round keys are absent or exactly rounds + 1 keys, so a
\* keyless decrypt on an engine with cached keys does not fail.
C8_CachedKeyLength ==
    ~eng.round_keys.none =>
        /\ Len(eng.round_keys.keys) = eng.rounds + 1
        /\ decrypt(eng, IntV(65535), None).ok

=============================================================================
